---- MODULE Spec2Model ----
(***************************************************************************)
(* TinySDF (src/index.js): glyph alpha bitmap -> signed distance field.    *)
(*                                                                         *)
(* Number representation.  The source computes in IEEE doubles.  Here a    *)
(* Float64 cell is an integer counting hundredths (Unit = 100), so that    *)
(* the seed costs (0.5 - a)^2 of the alpha levels 0, 0.2, .. 1 are exact;  *)
(* a squared pixel distance d*d is therefore Unit*d*d.  Two sentinels:     *)
(* INF stands for the source's 1e20, which absorbs every finite addend of  *)
(* the model (1e20 + x = 1e20 for |x| < 8192 in doubles) and never enters  *)
(* integer arithmetic; NaN stands for NaN and for undefined (the read of   *)
(* a typed array outside its length).  An intersection abscissa s, and a   *)
(* cell of z, is a triple <<i, n, d>> meaning (i*1e20 + n/Unit)/d, with    *)
(* d = 0 for NaN.                                                          *)
(***************************************************************************)
EXTENDS Integers, Sequences, FiniteSets, TLC

INF == 2000000000
NaN == -1
Unit == 100

\* ---- bounds of the model ------------------------------------------------
MaxLen == 4
MaxCross == 2
EdtMaxW == 3
EdtMaxH == 2
MaxSeeds == 2
MaxFontSize == 3
MaxBuffer == 2
MaxRadius == 2
MaxBox == 8
MaxDraws == 2

VARIABLES
    constructed,            \* "none", "ok" or "error": the outcome of new TinySDF
    size, buffer, radius, cutoff,             \* this.size, this.buffer, ...
    gridOuter, gridInner, f, v, z,            \* the arrays of the generator
    frame,                  \* edt1d: its position, arguments and locals
    eframe,                 \* edt: its position, arguments and loop index
    calls,                  \* history: the edt1d calls of the current edt
    before,                 \* history: the grid when the current call began
    transformed,            \* history: that grid was itself left by edt
    metrics,                \* what getMetrics returned last
    imgData,                \* the alpha bytes ctx.getImageData returned last
    glyph,                  \* what draw returned last
    rastered,               \* history: the last draw called the rasterizer
    draws                   \* history: the number of draw calls so far

genvars == <<constructed, size, buffer, radius, cutoff>>

arrays == <<gridOuter, gridInner, f, v, z>>

edtvars == <<frame, eframe, calls, before, transformed>>

drawvars == <<metrics, imgData, glyph, rastered, draws>>

vars == <<genvars, arrays, edtvars, drawvars>>

\* ---- typed arrays -------------------------------------------------------
\* new Float64Array(n) / new Uint16Array(n): n zeroes
ZeroArray(n) == [i \in 0..(n - 1) |-> 0]

NaNz == <<0, 0, 0>>
Zeroz == <<0, 0, 1>>
PosInf == <<1, 0, 1>>
NegInf == <<-1, 0, 1>>

ZeroArrayZ(n) == [i \in 0..(n - 1) |-> Zeroz]

\* arr[i]: undefined outside the array (and for an undefined index)
Get(arr, i) == IF i \in DOMAIN arr THEN arr[i] ELSE NaN

GetZ(arr, i) == IF i \in DOMAIN arr THEN arr[i] ELSE NaNz

\* arr[i] = x: a store outside the array is dropped
Set(arr, i, x) == IF i \in DOMAIN arr THEN [arr EXCEPT ![i] = x] ELSE arr

\* ---- arithmetic of edt1d ------------------------------------------------
\* a faulty Intersect: the division by 2 left out
IntersectUnhalved(fq, fr, q, r) ==
    IF r = NaN \/ fq = NaN \/ fr = NaN \/ q = r THEN NaNz
    ELSE LET i == (IF fq = INF THEN 1 ELSE 0) - (IF fr = INF THEN 1 ELSE 0)
             n == (IF fq = INF THEN 0 ELSE fq - fr) + Unit * (q * q - r * r)
             d == q - r
         IN  IF d > 0
             THEN IF i # 0 THEN <<i, 0, d>> ELSE <<0, n, d>>
             ELSE IF i # 0 THEN <<-i, 0, -d>> ELSE <<0, -n, -d>>

\* s = (f[q] - f[r] + q * q - r * r) / (q - r) / 2
Intersect(fq, fr, q, r) ==
    IF r = NaN \/ fq = NaN \/ fr = NaN \/ q = r THEN NaNz
    ELSE LET i == (IF fq = INF THEN 1 ELSE 0) - (IF fr = INF THEN 1 ELSE 0)
             n == (IF fq = INF THEN 0 ELSE fq - fr) + Unit * (q * q - r * r)
             d == 2 * (q - r)
         IN  IF d > 0
             THEN IF i # 0 THEN <<i, 0, d>> ELSE <<0, n, d>>
             ELSE IF i # 0 THEN <<-i, 0, -d>> ELSE <<0, -n, -d>>

\* s <= z[k]
LeZ(s, zk) ==
    IF s[3] = 0 \/ zk[3] = 0 THEN FALSE
    ELSE LET hs == s[1] * zk[3]
             hz == zk[1] * s[3]
         IN  IF hs # hz THEN hs < hz
             ELSE IF s[1] # 0 THEN TRUE
             ELSE s[2] * zk[3] <= zk[2] * s[3]

\* z[k + 1] < q
LtQ(zk, q) ==
    IF zk[3] = 0 THEN FALSE
    ELSE IF zk[1] # 0 THEN zk[1] < 0
    ELSE zk[2] < q * Unit * zk[3]

\* a faulty AddSq: f[r] + (q - r), the distance not squared
AddSqLinear(fr, q, r) ==
    IF r = NaN \/ fr = NaN THEN NaN
    ELSE IF fr = INF THEN INF
    ELSE fr + Unit * (IF q > r THEN q - r ELSE r - q)

\* f[r] + (q - r) * (q - r)
AddSq(fr, q, r) ==
    IF r = NaN \/ fr = NaN THEN NaN
    ELSE IF fr = INF THEN INF
    ELSE fr + Unit * (q - r) * (q - r)

\* while (z[k + 1] < q) k++
RECURSIVE Advance(_, _, _)
Advance(zz, k, q) ==
    IF LtQ(GetZ(zz, k + 1), q) THEN Advance(zz, k + 1, q) ELSE k

\* ---- edt1d, one step of it at a time -------------------------------------
\* st = [grid, f, v, z, fr]; fr holds the position and the locals of the call
NewFrame(offset, stride, length) ==
    [pc |-> "init", offset |-> offset, stride |-> stride, length |-> length,
     q |-> NaN, k |-> NaN, s |-> NaNz, r |-> NaN, evals |-> 0]

IdleFrame == [NewFrame(0, 0, 0) EXCEPT !.pc = "idle"]

\* a faulty StepInit: z[0] = INF, the sign of the lower boundary lost
StepInitNoFloor(st) ==
    [st EXCEPT !.v = Set(@, 0, 0),
               !.z = Set(Set(@, 0, PosInf), 1, PosInf),
               !.fr.q = 0,
               !.fr.pc = "load"]

\* v[0] = 0; z[0] = -INF; z[1] = INF; (q = 0)
StepInit(st) ==
    [st EXCEPT !.v = Set(@, 0, 0),
               !.z = Set(Set(@, 0, NegInf), 1, PosInf),
               !.fr.q = 0,
               !.fr.pc = "load"]

\* after a loop over q: the second loop's header, or the third's
EnvelopeOrFill(fr, q) ==
    IF q < fr.length
    THEN [fr EXCEPT !.q = q, !.evals = 0, !.pc = "eval"]
    ELSE [fr EXCEPT !.q = 0, !.k = 0, !.pc = "fill"]

\* for (q = 0; q < length; q++) f[q] = grid[offset + q * stride];
StepLoad(st) ==
    LET fr == st.fr IN
    IF fr.q < fr.length
    THEN [st EXCEPT !.f = Set(@, fr.q, Get(st.grid, fr.offset + fr.q * fr.stride)),
                    !.fr.q = fr.q + 1]
    ELSE [st EXCEPT !.fr = EnvelopeOrFill([fr EXCEPT !.k = 0, !.s = Zeroz], 1)]

\* r = v[k]; s = ...
StepEval(st) ==
    LET fr == st.fr
        r == Get(st.v, fr.k)
    IN  [st EXCEPT !.fr.r = r,
                   !.fr.s = Intersect(Get(st.f, fr.q), Get(st.f, r), fr.q, r),
                   !.fr.evals = fr.evals + 1,
                   !.fr.pc = "test"]

\* while (s <= z[k] && --k > -1)
StepTest(st) ==
    LET fr == st.fr IN
    IF LeZ(fr.s, GetZ(st.z, fr.k))
    THEN [st EXCEPT !.fr.k = fr.k - 1,
                    !.fr.pc = IF fr.k - 1 > -1 THEN "eval" ELSE "push"]
    ELSE [st EXCEPT !.fr.pc = "push"]

\* k++; v[k] = q; z[k] = s; z[k + 1] = INF; (q++)
StepPush(st) ==
    LET fr == st.fr
        k == fr.k + 1
    IN  [st EXCEPT !.v = Set(@, k, fr.q),
                   !.z = Set(Set(@, k, fr.s), k + 1, PosInf),
                   !.fr = EnvelopeOrFill([fr EXCEPT !.k = k], fr.q + 1)]

\* while (z[k + 1] < q) k++; r = v[k]; grid[..] = f[r] + (q - r) * (q - r);
StepFill(st) ==
    LET fr == st.fr IN
    IF fr.q < fr.length
    THEN LET k == Advance(st.z, fr.k, fr.q)
             r == Get(st.v, k)
         IN  [st EXCEPT !.grid = Set(@, fr.offset + fr.q * fr.stride,
                                     AddSq(Get(st.f, r), fr.q, r)),
                        !.fr.k = k, !.fr.r = r, !.fr.q = fr.q + 1]
    ELSE [st EXCEPT !.fr.pc = "done"]

Edt1dStep(st) ==
    CASE st.fr.pc = "init" -> StepInit(st)
      [] st.fr.pc = "load" -> StepLoad(st)
      [] st.fr.pc = "eval" -> StepEval(st)
      [] st.fr.pc = "test" -> StepTest(st)
      [] st.fr.pc = "push" -> StepPush(st)
      [] st.fr.pc = "fill" -> StepFill(st)

RECURSIVE Edt1dRun(_)
Edt1dRun(st) == IF st.fr.pc = "done" THEN st ELSE Edt1dRun(Edt1dStep(st))

\* function edt1d(grid, offset, stride, length, f, v, z), run to its return
edt1d(grid, offset, stride, length, ff, vv, zz) ==
    Edt1dRun([grid |-> grid, f |-> ff, v |-> vv, z |-> zz,
              fr |-> NewFrame(offset, stride, length)])

\* ---- edt, one edt1d call at a time ----------------------------------------
\* est = [grid, f, v, z, fr, ef]; ef holds edt's position and arguments
NewEFrame(width, height) ==
    [pc |-> "cols", width |-> width, height |-> height, i |-> 0]

IdleEFrame == [NewEFrame(0, 0) EXCEPT !.pc = "idle"]

\* the arrays and the edt1d frame that an edt1d call leaves in est
AfterEdt1d(est, st) ==
    [est EXCEPT !.grid = st.grid, !.f = st.f, !.v = st.v, !.z = st.z, !.fr = st.fr]

\* a faulty StepCols: the first loop of edt walks the rows
StepColsRowWise(est) ==
    LET ef == est.ef IN
    IF ef.i < ef.height
    THEN [AfterEdt1d(est, edt1d(est.grid, ef.i * ef.width, 1, ef.width,
                                est.f, est.v, est.z))
            EXCEPT !.ef.i = ef.i + 1]
    ELSE [est EXCEPT !.ef.pc = "rows", !.ef.i = 0]

\* a faulty StepRows: the row offset y in place of y * width
StepRowsUnscaled(est) ==
    LET ef == est.ef IN
    IF ef.i < ef.height
    THEN [AfterEdt1d(est, edt1d(est.grid, ef.i, 1, ef.width,
                                est.f, est.v, est.z))
            EXCEPT !.ef.i = ef.i + 1]
    ELSE [est EXCEPT !.ef.pc = "done"]

\* for (let x = 0; x < width; x++) edt1d(data, x, width, height, f, v, z);
StepCols(est) ==
    LET ef == est.ef IN
    IF ef.i < ef.width
    THEN [AfterEdt1d(est, edt1d(est.grid, ef.i, ef.width, ef.height,
                                est.f, est.v, est.z))
            EXCEPT !.ef.i = ef.i + 1]
    ELSE [est EXCEPT !.ef.pc = "rows", !.ef.i = 0]

\* for (let y = 0; y < height; y++) edt1d(data, y * width, 1, width, f, v, z);
StepRows(est) ==
    LET ef == est.ef IN
    IF ef.i < ef.height
    THEN [AfterEdt1d(est, edt1d(est.grid, ef.i * ef.width, 1, ef.width,
                                est.f, est.v, est.z))
            EXCEPT !.ef.i = ef.i + 1]
    ELSE [est EXCEPT !.ef.pc = "done"]

EdtStep(est) ==
    CASE est.ef.pc = "cols" -> StepCols(est)
      [] est.ef.pc = "rows" -> StepRows(est)

RECURSIVE EdtRun(_)
EdtRun(est) == IF est.ef.pc = "done" THEN est ELSE EdtRun(EdtStep(est))

\* function edt(data, width, height, f, v, z), run to its return
edt(data, width, height, ff, vv, zz, fr) ==
    EdtRun([grid |-> data, f |-> ff, v |-> vv, z |-> zz, fr |-> fr,
            ef |-> NewEFrame(width, height)])

\* ---- the generator: constructor, getMetrics, draw ------------------------
\* constructor({fontSize, buffer, radius, cutoff}); cutoff counts quarters.
\* new Float64Array(n) throws a RangeError for n < 0, nothing else is checked.
Constructor(fontSize, buf, rad, cut) ==
    LET sz == fontSize + buf * 4 IN
    IF sz < 0
    THEN [constructed |-> "error", size |-> 0, buffer |-> 0, radius |-> 0,
          cutoff |-> 0, gridOuter |-> ZeroArray(0), gridInner |-> ZeroArray(0),
          f |-> ZeroArray(0), z |-> ZeroArrayZ(0), v |-> ZeroArray(0)]
    ELSE [constructed |-> "ok", size |-> sz, buffer |-> buf, radius |-> rad,
          cutoff |-> cut,
          gridOuter |-> ZeroArray(sz * sz), gridInner |-> ZeroArray(sz * sz),
          f |-> ZeroArray(sz), z |-> ZeroArrayZ(sz + 1), v |-> ZeroArray(sz)]

Min(a, b) == IF a < b THEN a ELSE b

Max(a, b) == IF a > b THEN a ELSE b

\* Math.ceil and Math.floor of a number of half pixels
CeilHalf(n) == (n + 1) \div 2

FloorHalf(n) == n \div 2

\* getMetrics(char); m is what ctx.measureText(char) reports, in half pixels
getMetrics(m, sz, buf) ==
    LET glyphWidth == Min(sz - buf, CeilHalf(m.right - m.left))
        glyphHeight == Min(sz - buf, CeilHalf(m.ascent + m.descent))
    IN  [width |-> glyphWidth + 2 * buf, height |-> glyphHeight + 2 * buf,
         glyphWidth |-> glyphWidth, glyphHeight |-> glyphHeight,
         glyphTop |-> FloorHalf(m.ascent), glyphLeft |-> 0,
         glyphAdvance |-> m.advance]

\* a faulty EarlyReturn: && in place of ||
EarlyReturnBoth(met) == met.glyphWidth = 0 /\ met.glyphHeight = 0

\* if (glyphWidth === 0 || glyphHeight === 0) return glyph;
EarlyReturn(met) == met.glyphWidth = 0 \/ met.glyphHeight = 0

\* a faulty Fill: the array left as the previous draw left it
FillNothing(arr, x, n) == arr

\* arr.fill(x, 0, n); a negative n counts from the end of the array
Fill(arr, x, n) ==
    LET len == Cardinality(DOMAIN arr)
        end == IF n < 0 THEN len + n ELSE n
    IN  [i \in DOMAIN arr |-> IF i < end THEN x ELSE arr[i]]

\* (0.5 - a) * 10 for the alpha byte b, a = b / 255 (b a multiple of 51)
HalfMinus(b) == (255 - 2 * b) \div 51

\* a faulty OuterSeed: the opaque and the transparent case exchanged
OuterSeedInverted(b) ==
    IF b = 255 THEN INF ELSE IF b = 0 THEN 0
    ELSE LET t == Max(0, HalfMinus(b)) IN t * t

\* a === 1 ? 0 : a === 0 ? INF : Math.pow(Math.max(0, 0.5 - a), 2)
OuterSeed(b) ==
    IF b = 255 THEN 0 ELSE IF b = 0 THEN INF
    ELSE LET t == Max(0, HalfMinus(b)) IN t * t

\* a === 1 ? INF : a === 0 ? 0 : Math.pow(Math.max(0, a - 0.5), 2)
InnerSeed(b) ==
    IF b = 255 THEN INF ELSE IF b = 0 THEN 0
    ELSE LET t == Max(0, 0 - HalfMinus(b)) IN t * t

\* the two loops over y and x of draw, pixel p = y * glyphWidth + x onwards
RECURSIVE Seed(_, _, _, _)
Seed(g, met, img, p) ==
    IF p >= met.glyphWidth * met.glyphHeight THEN g
    ELSE LET y == p \div met.glyphWidth
             x == p % met.glyphWidth
             offset == (met.width - met.glyphWidth) \div 2
             j == (y + offset) * met.width + x + offset
         IN  Seed([g EXCEPT !.gridOuter = Set(@, j, OuterSeed(img[p])),
                            !.gridInner = Set(@, j, InnerSeed(img[p]))],
                  met, img, p + 1)

\* the largest r in lo..hi with r * r <= n (hi at most 46340, the largest
\* root whose square is a 32-bit integer)
RECURSIVE FloorSqrt(_, _, _)
FloorSqrt(n, lo, hi) ==
    IF lo = hi THEN lo
    ELSE LET mid == (lo + hi + 1) \div 2
         IN  IF mid * mid <= n THEN FloorSqrt(n, mid, hi) ELSE FloorSqrt(n, lo, mid - 1)

Clamp(n) == IF n < 0 THEN 0 ELSE IF n > 255 THEN 255 ELSE n

\* a * b as four digits of base 2^15, most significant first (a, b < 2^30)
Product(a, b) ==
    LET base == 32768
        low == (a % base) * (b % base)
        mid == (a \div base) * (b % base) + (a % base) * (b \div base) + low \div base
        high == (a \div base) * (b \div base) + mid \div base
    IN  <<high \div base, high % base, mid % base, low % base>>

\* a * b <= c * d
ProductLe(a, b, c, d) ==
    LET x == Product(a, b)
        y == Product(c, d)
    IN  \/ x = y
        \/ \E i \in 1..4 : x[i] < y[i] /\ \A j \in 1..(i - 1) : x[j] = y[j]

\* Math.sqrt(p) <= t + Math.sqrt(m), decided in integers
SqrtDiffLe(p, m, t) ==
    IF t >= 0
    THEN LET l == p - m - t * t
         IN  l <= 0 \/ ProductLe(l, l, 4 * t * t, m)
    ELSE LET l == m - p - t * t
         IN  l >= 0 /\ ProductLe(4 * t * t, p, l, l)

\* floor((num - (Math.sqrt(p) - Math.sqrt(m))) / den), den > 0: the floors
\* and ceilings of the two roots bracket it, SqrtDiffLe settles a bracket
\* of two values
FloorMinusSqrtDiff(num, den, p, m) ==
    LET fp == FloorSqrt(p, 0, 46340)
        cp == IF fp * fp = p THEN fp ELSE fp + 1
        fm == FloorSqrt(m, 0, 46340)
        cm == IF fm * fm = m THEN fm ELSE fm + 1
        lo == (num - (cp - fm)) \div den
        hi == (num - (fp - cm)) \div den
    IN  IF lo = hi THEN lo
        ELSE IF SqrtDiffLe(p, m, num - hi * den) THEN hi
        ELSE IF hi - 1 = lo \/ SqrtDiffLe(p, m, num - (hi - 1) * den) THEN hi - 1
        ELSE lo

\* data[i] = Math.round(255 - 255 * (d / radius + cutoff)) with
\* d = Math.sqrt(outer) - Math.sqrt(inner), stored in a Uint8ClampedArray.
\* Math.round(x) = floor(x + 0.5); with outer, inner in hundredths and the
\* cutoff in quarters,
\*   x + 0.5 = ((1022 - 255 * cutoff) * radius
\*                - (sqrt(10404 * outer) - sqrt(10404 * inner))) / (4 * radius).
\* sqrt(1e20) = 1e10 outweighs every other term; x / 0 is +-Infinity or NaN.
Quantize(outer, inner, rad, cut) ==
    IF outer = NaN \/ inner = NaN THEN 0
    ELSE IF outer = inner
    THEN IF rad = 0 THEN 0 ELSE Clamp((1022 - 255 * cut) \div 4)
    ELSE IF outer = INF \/ inner = INF \/ rad = 0
    THEN IF (inner = INF \/ (outer # INF /\ outer < inner)) <=> (rad >= 0)
         THEN 255 ELSE 0
    ELSE IF rad > 0
    THEN Clamp(FloorMinusSqrtDiff((1022 - 255 * cut) * rad, 4 * rad,
                                  10404 * outer, 10404 * inner))
    ELSE Clamp(FloorMinusSqrtDiff((255 * cut - 1022) * rad, 0 - 4 * rad,
                                  10404 * inner, 10404 * outer))

\* draw(char, metrics): g holds the arrays, img what the rasterizer paints
draw(g, met, img, rad, cut) ==
    LET n == met.width * met.height
        glyphOf(data) ==
            [data |-> data, width |-> met.width, height |-> met.height,
             glyphWidth |-> met.glyphWidth, glyphHeight |-> met.glyphHeight,
             glyphTop |-> met.glyphTop, glyphLeft |-> met.glyphLeft,
             glyphAdvance |-> met.glyphAdvance]
    IN
    IF EarlyReturn(met)
    THEN [g |-> g, glyph |-> glyphOf(ZeroArray(n)), rastered |-> FALSE]
    ELSE LET filled == [g EXCEPT !.gridOuter = Fill(@, INF, n),
                                 !.gridInner = Fill(@, 0, n)]
             seeded == Seed(filled, met, img, 0)
             o == edt(seeded.gridOuter, met.width, met.height,
                      seeded.f, seeded.v, seeded.z, IdleFrame)
             i == edt(seeded.gridInner, met.width, met.height, o.f, o.v, o.z, o.fr)
         IN  [g |-> [gridOuter |-> o.grid, gridInner |-> i.grid,
                     f |-> i.f, v |-> i.v, z |-> i.z],
              glyph |-> glyphOf([c \in 0..(n - 1) |->
                                   Quantize(Get(o.grid, c), Get(i.grid, c), rad, cut)]),
              rastered |-> TRUE]

NoMetrics ==
    [width |-> 0, height |-> 0, glyphWidth |-> 0, glyphHeight |-> 0,
     glyphTop |-> 0, glyphLeft |-> 0, glyphAdvance |-> 0]

NoGlyph == [NoMetrics EXCEPT !.width = 0] @@ [data |-> ZeroArray(0)]

\* no getMetrics and no draw call so far
NoDraw ==
    /\ metrics = NoMetrics
    /\ imgData = ZeroArray(0)
    /\ glyph = NoGlyph
    /\ rastered = FALSE
    /\ draws = 0

\* ---- the first specification: one line of a grid through edt1d ----------
Costs == {0, 9, Unit, INF}

LineSize == Max(MaxLen, MaxCross)

\* the cells offset + i*stride, i < length
OnLine(fr) == {fr.offset + i * fr.stride : i \in 0..(fr.length - 1)}

\* a column (stride = width) or a row (stride 1) of a width x height grid,
\* as edt calls edt1d.  Cells of the line hold any cost; the rest of the
\* width x height prefix holds what gridOuter.fill(INF, ..) left there.
LineCalls ==
    { NewFrame(c.idx, c.cross, c.len) :
        c \in {d \in [len : 1..MaxLen, cross : 1..MaxCross, idx : 0..(MaxCross - 1)] :
                  d.idx < d.cross} }
    \cup
    { NewFrame(c.idx * c.len, 1, c.len) :
        c \in {d \in [len : 1..MaxLen, cross : 1..MaxCross, idx : 0..(MaxCross - 1)] :
                  d.idx < d.cross} }

InitLine ==
    /\ constructed = "ok"
    /\ size = LineSize
    /\ buffer = 0
    /\ radius = 1
    /\ cutoff = 1
    /\ \E fr \in LineCalls :
         /\ frame = [fr EXCEPT !.pc = "idle"]
         /\ \E line \in [OnLine(fr) -> Costs] :
              gridOuter = [i \in 0..(size * size - 1) |->
                             IF i \in OnLine(fr) THEN line[i]
                             ELSE IF i <= fr.offset + (fr.length - 1) * fr.stride
                                  THEN INF ELSE 0]
    /\ gridInner = ZeroArray(size * size)
    /\ f = ZeroArray(size)
    /\ v = ZeroArray(size)
    /\ z = ZeroArrayZ(size + 1)
    /\ eframe = IdleEFrame
    /\ calls = <<>>
    /\ before = gridOuter
    /\ transformed = FALSE
    /\ NoDraw

St == [grid |-> gridOuter, f |-> f, v |-> v, z |-> z, fr |-> frame]

Apply(next) ==
    \E st \in {next} :
    /\ gridOuter' = st.grid
    /\ f' = st.f
    /\ v' = st.v
    /\ z' = st.z
    /\ frame' = st.fr
    /\ UNCHANGED <<genvars, gridInner, eframe, calls, transformed, drawvars>>

\* the caller enters edt1d on the line
Edt1dCall ==
    /\ frame.pc = "idle"
    /\ before' = gridOuter
    /\ Apply([St EXCEPT !.fr = NewFrame(frame.offset, frame.stride, frame.length)])

Edt1dInit == frame.pc = "init" /\ Apply(Edt1dStep(St)) /\ UNCHANGED before

Edt1dLoad == frame.pc = "load" /\ Apply(Edt1dStep(St)) /\ UNCHANGED before

Edt1dEval == frame.pc = "eval" /\ Apply(Edt1dStep(St)) /\ UNCHANGED before

Edt1dTest == frame.pc = "test" /\ Apply(Edt1dStep(St)) /\ UNCHANGED before

Edt1dPush == frame.pc = "push" /\ Apply(Edt1dStep(St)) /\ UNCHANGED before

Edt1dFill == frame.pc = "fill" /\ Apply(Edt1dStep(St)) /\ UNCHANGED before

\* edt1d returns; the same line may be handed to it again
Edt1dReturn ==
    /\ frame.pc = "done"
    /\ Apply([St EXCEPT !.fr.pc = "idle"])
    /\ UNCHANGED before

NextLine ==
    \/ Edt1dCall
    \/ Edt1dInit
    \/ Edt1dLoad
    \/ Edt1dEval
    \/ Edt1dTest
    \/ Edt1dPush
    \/ Edt1dFill
    \/ Edt1dReturn

SpecLine == InitLine /\ [][NextLine]_vars

\* ---- the second specification: a cost grid through edt -------------------
EdtSize == Max(EdtMaxW, EdtMaxH)

\* width x height cost grids: one cost everywhere but in at most MaxSeeds cells
CostGrids(width, height) ==
    LET cells == 0..(width * height - 1) IN
    { [i \in cells |-> IF i \in DOMAIN g THEN g[i] ELSE b] :
        b \in Costs,
        g \in UNION { [S -> Costs] :
                        S \in {T \in SUBSET cells : Cardinality(T) <= MaxSeeds} } }

InitEdt ==
    /\ constructed = "ok"
    /\ size = EdtSize
    /\ buffer = 0
    /\ radius = 1
    /\ cutoff = 1
    /\ \E width \in 1..EdtMaxW, height \in 1..EdtMaxH :
         /\ eframe = [NewEFrame(width, height) EXCEPT !.pc = "idle"]
         /\ \E g \in CostGrids(width, height) :
              gridOuter = [i \in 0..(size * size - 1) |->
                             IF i \in DOMAIN g THEN g[i] ELSE 0]
    /\ gridInner = ZeroArray(size * size)
    /\ f = ZeroArray(size)
    /\ v = ZeroArray(size)
    /\ z = ZeroArrayZ(size + 1)
    /\ frame = IdleFrame
    /\ calls = <<>>
    /\ before = gridOuter
    /\ transformed = FALSE
    /\ NoDraw

ESt == [grid |-> gridOuter, f |-> f, v |-> v, z |-> z, fr |-> frame, ef |-> eframe]

\* the edt1d call a step of edt made, if it made one
Called(old, est) ==
    IF est.ef.pc = old.ef.pc /\ est.ef.i = old.ef.i + 1
    THEN <<[offset |-> est.fr.offset, stride |-> est.fr.stride,
            length |-> est.fr.length]>>
    ELSE <<>>

ApplyEdt(next) ==
    \E est \in {next} :
    /\ gridOuter' = est.grid
    /\ f' = est.f
    /\ v' = est.v
    /\ z' = est.z
    /\ frame' = est.fr
    /\ eframe' = est.ef
    /\ calls' = IF est.ef.pc = "cols" /\ est.ef.i = 0 THEN <<>>
                ELSE calls \o Called(ESt, est)
    /\ UNCHANGED <<genvars, gridInner, drawvars>>

\* the caller enters edt on the grid (again, once it has returned)
EdtCall ==
    /\ eframe.pc = "idle"
    /\ before' = gridOuter
    /\ transformed' = (calls # <<>>)
    /\ ApplyEdt([ESt EXCEPT !.ef = NewEFrame(eframe.width, eframe.height)])

EdtCols ==
    /\ eframe.pc = "cols"
    /\ ApplyEdt(EdtStep(ESt))
    /\ UNCHANGED <<before, transformed>>

EdtRows ==
    /\ eframe.pc = "rows"
    /\ ApplyEdt(EdtStep(ESt))
    /\ UNCHANGED <<before, transformed>>

EdtReturn ==
    /\ eframe.pc = "done"
    /\ ApplyEdt([ESt EXCEPT !.ef.pc = "idle"])
    /\ UNCHANGED <<before, transformed>>

NextEdt ==
    \/ EdtCall
    \/ EdtCols
    \/ EdtRows
    \/ EdtReturn

SpecEdt == InitEdt /\ [][NextEdt]_vars

\* ---- the third specification: construction and getMetrics ----------------
Unconstructed ==
    /\ constructed = "none"
    /\ size = 0 /\ buffer = 0 /\ radius = 0 /\ cutoff = 0
    /\ gridOuter = ZeroArray(0) /\ gridInner = ZeroArray(0)
    /\ f = ZeroArray(0) /\ v = ZeroArray(0) /\ z = ZeroArrayZ(0)

NoEdt ==
    /\ frame = IdleFrame
    /\ eframe = IdleEFrame
    /\ calls = <<>>
    /\ before = ZeroArray(0)
    /\ transformed = FALSE

InitGen == Unconstructed /\ NoEdt /\ NoDraw

\* the fields a constructor run leaves
Constructed(c) ==
    /\ constructed = c.constructed
    /\ size = c.size /\ buffer = c.buffer /\ radius = c.radius /\ cutoff = c.cutoff
    /\ gridOuter = c.gridOuter /\ gridInner = c.gridInner
    /\ f = c.f /\ v = c.v /\ z = c.z

\* what ctx.measureText can report, in half pixels
Measures(boxes) ==
    {[left |-> l, right |-> r, ascent |-> a, descent |-> d, advance |-> r] :
        l \in {0, 1}, r \in boxes, a \in boxes, d \in {0, 1}}

\* new TinySDF({fontSize, buffer, radius, cutoff})
Construct ==
    /\ constructed = "none"
    /\ \E fontSize \in (-1)..MaxFontSize, buf \in 0..MaxBuffer,
          rad \in (-1)..MaxRadius, cut \in {0, 1, 2} :
         LET c == Constructor(fontSize, buf, rad, cut) IN
         /\ constructed' = c.constructed
         /\ size' = c.size /\ buffer' = c.buffer
         /\ radius' = c.radius /\ cutoff' = c.cutoff
         /\ gridOuter' = c.gridOuter /\ gridInner' = c.gridInner
         /\ f' = c.f /\ v' = c.v /\ z' = c.z
    /\ UNCHANGED <<edtvars, drawvars>>

\* sdf.getMetrics(char)
GetMetrics ==
    /\ constructed = "ok"
    /\ \E m \in Measures(0..MaxBox) : metrics' = getMetrics(m, size, buffer)
    /\ UNCHANGED <<genvars, arrays, edtvars, imgData, glyph, rastered, draws>>

NextGen ==
    \/ Construct
    \/ GetMetrics

SpecGen == InitGen /\ [][NextGen]_vars

\* ---- the fourth specification: draw calls on one generator --------------
\* {fontSize, buffer, radius, cutoff} of the generators drawn with
DrawConfigs ==
    {<<3, 0, 1, 1>>, <<3, 0, 0, 1>>, <<3, 1, 1, 1>>, <<3, 1, 2, 1>>, <<3, 1, 1, 4>>}

\* bounding boxes of the glyphs drawn, in half pixels
DrawMeasures ==
    {[left |-> 0, right |-> r, ascent |-> a, descent |-> 0, advance |-> r] :
        r \in {0, 10, 12}, a \in {0, 5, 10}}

AlphaLevels == <<0, 51, 102, 153, 204, 255>>

\* the alpha byte of pixel (x, y) of a glyphWidth x glyphHeight bitmap
Alpha(pattern, x, y, gw, gh) ==
    CASE pattern = "solid" -> 255
      [] pattern = "blank" -> 0
      [] pattern = "soft" ->
            IF y \in {0, gh - 1} THEN 102
            ELSE IF x \in {0, gw - 1} THEN 153 ELSE 255
      [] pattern = "dither" -> AlphaLevels[((x + 2 * y) % 6) + 1]

\* what ctx.getImageData(buffer, buffer, glyphWidth, glyphHeight) can hold
Images(gw, gh) ==
    { [p \in 0..(gw * gh - 1) |-> Alpha(pattern, p % gw, p \div gw, gw, gh)] :
        pattern \in {"solid", "blank", "soft", "dither"} }

InitDraw ==
    /\ \E c \in DrawConfigs : Constructed(Constructor(c[1], c[2], c[3], c[4]))
    /\ NoEdt
    /\ NoDraw

Arrays == [gridOuter |-> gridOuter, gridInner |-> gridInner, f |-> f, v |-> v, z |-> z]

\* sdf.draw(char), metrics defaulting to this.getMetrics(char)
Draw ==
    /\ constructed = "ok"
    /\ draws < MaxDraws
    /\ \E m \in DrawMeasures :
         LET met == getMetrics(m, size, buffer) IN
         \E img \in Images(Max(0, met.glyphWidth), Max(0, met.glyphHeight)) :
            \E out \in {draw(Arrays, met, img, radius, cutoff)} :
            /\ metrics' = met
            /\ imgData' = IF out.rastered THEN img ELSE imgData
            /\ gridOuter' = out.g.gridOuter
            /\ gridInner' = out.g.gridInner
            /\ f' = out.g.f
            /\ v' = out.g.v
            /\ z' = out.g.z
            /\ glyph' = out.glyph
            /\ rastered' = out.rastered
    /\ draws' = draws + 1
    /\ UNCHANGED <<genvars, edtvars>>

NextDraw == Draw

SpecDraw == InitDraw /\ [][NextDraw]_vars

\* ---- claims about edt1d (SpecLine) --------------------------------------
\* cost + d^2 in the cell's unit; the sentinel INF stays INF
SqDist(cost, d) == IF cost = INF THEN INF ELSE cost + Unit * d * d

MinOf(S) == CHOOSE m \in S : \A n \in S : m <= n

\* min over r of cost[r] + (i - r)^2 along the line of fr
LineMin(cost, fr, i) ==
    MinOf({SqDist(cost[fr.offset + r * fr.stride], i - r) : r \in 0..(fr.length - 1)})

\* C1: when edt1d returns, sample i of the line holds the minimum over r of
\* cost[r] + (i - r)^2, cost being the line before the call; a line of
\* length 1 is left as it was.
C1_LowerEnvelope ==
    frame.pc = "done" =>
        /\ \A i \in 0..(frame.length - 1) :
             gridOuter[frame.offset + i * frame.stride] = LineMin(before, frame, i)
        /\ frame.length = 1 => gridOuter = before

\* a line of three or more samples mixing INF and finite costs was
\* transformed, and a sample changed
C1_Witness ==
    /\ frame.pc = "done"
    /\ frame.length >= 3
    /\ \E i, j \in OnLine(frame) : before[i] = INF /\ before[j] \notin {0, INF}
    /\ gridOuter # before

\* C9: the envelope stack never underflows and s is never 0/0: whenever s
\* has been evaluated, 0 <= k, r = v[k] < q and at most q evaluations were
\* made for this q (the popping loop ends); k is never negative at a push;
\* parabola 0 stays at the bottom (v[0] = 0, z[0] = -INF) until the return.
C9_StackSafe ==
    /\ frame.pc \in {"eval", "test"} => frame.k >= 0 /\ frame.k < frame.q
    /\ frame.pc = "test" =>
         /\ frame.r = v[frame.k]
         /\ frame.r >= 0 /\ frame.r < frame.q
         /\ frame.s # NaNz
         /\ frame.evals <= frame.q
    /\ frame.pc = "push" => frame.k >= 0
    /\ frame.pc \in {"load", "eval", "test", "push", "fill", "done"} =>
         v[0] = 0 /\ z[0] = NegInf

\* the loop popped down to the single parabola at the bottom of the stack
C9_Witness ==
    /\ frame.pc = "test"
    /\ frame.k = 0
    /\ frame.evals >= 2
    /\ frame.length >= 3

\* ---- claims about edt (SpecEdt) ------------------------------------------
Cells(ef) == {<<x, y>> : x \in 0..(ef.width - 1), y \in 0..(ef.height - 1)}

At(grid, ef, c) == grid[c[2] * ef.width + c[1]]

\* cost + dx^2 + dy^2 in the cell's unit; the sentinel INF stays INF
SqDist2(cost, dx, dy) ==
    IF cost = INF THEN INF ELSE cost + Unit * (dx * dx + dy * dy)

GridMin(cost, ef, c) ==
    MinOf({SqDist2(At(cost, ef, d), c[1] - d[1], c[2] - d[2]) : d \in Cells(ef)})

\* exactly one cell costs 0 and every other cell is INF
SingleSeed(cost, ef) ==
    /\ Cardinality({c \in Cells(ef) : At(cost, ef, c) = 0}) = 1
    /\ \A c \in Cells(ef) : At(cost, ef, c) \in {0, INF}

\* C2: when edt returns, cell (x,y) holds the minimum over the cells (x',y')
\* of cost(x',y') + (x - x')^2 + (y - y')^2; with a single zero cell among
\* INF cells that is the squared Euclidean distance to the zero cell.
C2_GridMinimum ==
    eframe.pc = "done" =>
        /\ \A c \in Cells(eframe) : At(gridOuter, eframe, c) = GridMin(before, eframe, c)
        /\ SingleSeed(before, eframe) =>
             \A c, d \in Cells(eframe) :
                At(before, eframe, d) = 0 =>
                   At(gridOuter, eframe, c) =
                      Unit * ((c[1] - d[1]) * (c[1] - d[1]) + (c[2] - d[2]) * (c[2] - d[2]))

\* edt returned on a grid of at least 2 x 2 cells with a single zero cell
C2_Witness ==
    /\ eframe.pc = "done"
    /\ ~transformed
    /\ eframe.width >= 2 /\ eframe.height >= 2
    /\ SingleSeed(before, eframe)
    /\ \E c \in Cells(eframe) : At(gridOuter, eframe, c) = 2 * Unit

AllFinite(grid, ef) == \A c \in Cells(ef) : At(grid, ef, c) \notin {INF, NaN}

\* C6 as claimed: a second edt on an all-finite result of edt leaves every
\* cell larger than or equal to what it held.
C6_RerunNotSmaller ==
    (eframe.pc = "done" /\ transformed /\ AllFinite(before, eframe)) =>
        \A c \in Cells(eframe) : At(gridOuter, eframe, c) >= At(before, eframe, c)

\* C6 amended: the second edt returns, and every cell is finite and smaller
\* than or equal to what it held.
C6_RerunNotLarger ==
    (eframe.pc \in {"rows", "done"} /\ transformed /\ AllFinite(before, eframe)) =>
        /\ AllFinite(gridOuter, eframe)
        /\ \A c \in Cells(eframe) : At(gridOuter, eframe, c) <= At(before, eframe, c)

\* a second edt returned and made a cell strictly smaller
C6_Witness ==
    /\ eframe.pc = "done"
    /\ transformed
    /\ AllFinite(before, eframe)
    /\ \E c \in Cells(eframe) : At(gridOuter, eframe, c) < At(before, eframe, c)

RowCall(y, ef) == [offset |-> y * ef.width, stride |-> 1, length |-> ef.width]

ColCall(x, ef) == [offset |-> x, stride |-> ef.width, length |-> ef.height]

IsRowCall(c, ef) == \E y \in 0..(ef.height - 1) : c = RowCall(y, ef)

IsColCall(c, ef) == \E x \in 0..(ef.width - 1) : c = ColCall(x, ef)

\* C8 as claimed: every row (stride 1, length = width) goes through edt1d
\* before any column (stride = width, length = height) does.
C8_RowsBeforeColumns ==
    \A j \in DOMAIN calls :
        (IsColCall(calls[j], eframe) /\ ~IsRowCall(calls[j], eframe)) =>
            \A y \in 0..(eframe.height - 1) :
                \E i \in 1..(j - 1) : calls[i] = RowCall(y, eframe)

\* the calls edt makes, in order: the columns 0..width-1, then the rows
EdtCalls(ef) ==
    [n \in 1..(ef.width + ef.height) |->
        IF n <= ef.width THEN ColCall(n - 1, ef) ELSE RowCall(n - ef.width - 1, ef)]

\* C8 amended: every column (offset x, stride = width, length = height) goes
\* through edt1d before any row (offset y*width, stride 1, length = width)
\* does, each exactly once and in increasing order.
C8_ColumnsBeforeRows ==
    /\ Len(calls) <= eframe.width + eframe.height
    /\ \A n \in DOMAIN calls : calls[n] = EdtCalls(eframe)[n]
    /\ eframe.pc = "rows" => Len(calls) >= eframe.width
    /\ eframe.pc = "done" => Len(calls) = eframe.width + eframe.height

\* edt returned on a grid with several columns and several rows
C8_Witness ==
    /\ eframe.pc = "done"
    /\ eframe.width >= 2 /\ eframe.height >= 2
    /\ eframe.width # eframe.height
    /\ Len(calls) = eframe.width + eframe.height

\* ---- claims about the generator (SpecGen, SpecDraw) ----------------------
\* C5 as claimed: the metrics getMetrics returns fit the canvas, so that
\* width * height cells fit gridOuter and gridInner, and a line fits f, v, z.
C5_MetricsFitCanvas ==
    constructed = "ok" => metrics.width <= size /\ metrics.height <= size

\* C7 as claimed: a generator is constructed only from a radius > 0 and a
\* canvas size > 0.
C7_MalformedRejected ==
    constructed = "ok" => radius > 0 /\ size > 0

Solid(img) == \A p \in DOMAIN img : img[p] = 255

\* the last draw rasterized a fully opaque glyph whose half-width and
\* half-height both exceed radius
OpaqueGlyphDrawn ==
    /\ rastered
    /\ Solid(imgData)
    /\ glyph.glyphWidth > 2 * radius
    /\ glyph.glyphHeight > 2 * radius

\* the cell at the centre of the glyph rectangle
CentreCell(g) ==
    LET offset == (g.width - g.glyphWidth) \div 2 IN
    (offset + g.glyphHeight \div 2) * g.width + offset + g.glyphWidth \div 2

\* C3 as claimed: for a fully opaque glyph wider and higher than 2 * radius
\* the centre byte is 255 and the corner byte of the output is 0.
C3_CentreAndCornerSaturate ==
    OpaqueGlyphDrawn => glyph.data[CentreCell(glyph)] = 255 /\ glyph.data[0] = 0

\* C3 amended: the centre byte is 255; the corner byte is 0 exactly when the
\* corner lies outside the glyph (buffer > 0) and its distance sqrt(2)*buffer
\* to the glyph saturates: 255 - 255 * (sqrt(2)*buffer/radius + cutoff) < 0.5.
C3_CentreSaturates ==
    OpaqueGlyphDrawn =>
        /\ glyph.data[CentreCell(glyph)] = 255
        /\ glyph.data[0] = 0 <=>
              /\ buffer > 0
              /\ \/ radius * (1018 - 255 * cutoff) < 0
                 \/ 2080800 * buffer * buffer
                      > (radius * (1018 - 255 * cutoff)) * (radius * (1018 - 255 * cutoff))
        /\ buffer = 0 => glyph.data[0] = 255

\* an opaque glyph was drawn with a halo around it, and the corner byte is
\* neither 0 nor 255
C3_Witness ==
    /\ OpaqueGlyphDrawn
    /\ buffer > 0
    /\ glyph.data[CentreCell(glyph)] = 255
    /\ glyph.data[0] \notin {0, 255}

\* C4: a draw whose metrics have zero glyph width or zero glyph height
\* returns those metrics with a data buffer of default bytes only, calls no
\* rasterizer and leaves gridOuter, gridInner, f, v and z as they were.
C4_EmptyGlyphSkips ==
    [][(draws' = draws + 1 /\ (metrics'.glyphWidth = 0 \/ metrics'.glyphHeight = 0)) =>
          /\ [k \in DOMAIN metrics' |-> glyph'[k]] = metrics'
          /\ DOMAIN glyph'.data = 0..(metrics'.width * metrics'.height - 1)
          /\ \A i \in DOMAIN glyph'.data : glyph'.data[i] = 0
          /\ ~rastered'
          /\ UNCHANGED <<arrays, imgData>>]_vars

\* a glyph of zero width was drawn after a glyph that left distances in the
\* arrays
C4_Witness ==
    /\ draws = 2
    /\ ~rastered
    /\ glyph.glyphWidth = 0
    /\ \E i \in DOMAIN gridOuter : gridOuter[i] \notin {0, INF}
    /\ DOMAIN glyph.data # {}

\* the arrays of a generator that has not drawn yet
FreshArrays ==
    [gridOuter |-> ZeroArray(size * size), gridInner |-> ZeroArray(size * size),
     f |-> ZeroArray(size), v |-> ZeroArray(size), z |-> ZeroArrayZ(size + 1)]

\* C10: the data a draw returns is the data a fresh generator of the same
\* configuration returns for the same metrics and alpha bitmap, whatever the
\* earlier draws left in gridOuter, gridInner, f, v and z.
C10_NoLeakAcrossDraws ==
    rastered =>
        glyph.data = draw(FreshArrays, metrics, imgData, radius, cutoff).glyph.data

\* a second draw on arrays that still hold, beyond the cells it used, what a
\* larger glyph left there
C10_Witness ==
    /\ draws = 2
    /\ rastered
    /\ \E i \in DOMAIN gridOuter :
         i >= glyph.width * glyph.height /\ gridOuter[i] \notin {0, INF}

====
